---- MODULE Spec2Model ----
(***************************************************************************)
(* Model of runtools.runjob.phaser.Phaser: one driver thread calling       *)
(* prime() and run(), one thread calling stop(), one thread calling        *)
(* wait_for_transition(), all synchronised by the transition lock.         *)
(* Timestamps are left out: no decision of the Phaser reads them.          *)
(***************************************************************************)
EXTENDS Integers, Sequences, FiniteSets, TLC

\* ---------------------------------------------------------------- bounds
MaxPhases == 2      \* longest configured phase list
MaxRuns == 2        \* run() calls made by the driver thread
MaxStops == 2       \* stop() calls made by the stopping thread

\* ------------------------------------------------------- values and types
PhaseIds == <<"A", "B", "C", "D">>

\* (run_state, stop_status) of a configured phase.
PhaseKinds == {<<"EXECUTING", "STOPPED">>, <<"EXECUTING", "NONE">>, <<"NONE", "STOPPED">>}

TerminateStatuses == {"NONE", "STOPPED"}

Faults == {"F1"}

ExcClasses == {"ValueError"}

ExcMessages == {"boom"}

ExitCodes == {0, 1}

None == "None"

Phase(id, type, run_state, stop_status) ==
    [id |-> id, type |-> type, run_state |-> run_state, stop_status |-> stop_status]

NoPhase == Phase(None, None, "NONE", "NONE")

InitPhase == Phase("Init", "INIT", "CREATED", "STOPPED")

TerminalPhase == Phase("term", "TERMINAL", "ENDED", "NONE")

PhaseRun(phase) == [phase_id |-> phase.id, run_state |-> phase.run_state]

RunError(category, message) == [category |-> category, message |-> message]

NoError == RunError(None, None)

TerminationInfo(status, failure, error) ==
    [status |-> status, failure |-> failure, error |-> error]

NoTermination == TerminationInfo("null", None, NoError)

\* What phase.run raised; cls = None stands for a normal return.
Raised(cls, msg, code, term_status, fault) ==
    [cls |-> cls, msg |-> msg, code |-> code, term_status |-> term_status, fault |-> fault]

NoExc == Raised(None, "", 0, "NONE", None)

TerminateRun(status) == Raised("TerminateRun", "", 0, status, None)

FailedRun(fault) == Raised("FailedRun", "", 0, "NONE", fault)

KeyboardInterrupt == Raised("KeyboardInterrupt", "", 0, "NONE", None)

SystemExit(code) == Raised("SystemExit", "", code, "NONE", None)

HookError == Raised("HookError", "hook", 0, "NONE", None)

TypeError == Raised("TypeError", "not callable", 0, "NONE", None)

AssertionError == Raised("AssertionError", "", 0, "NONE", None)

InvalidStateError == Raised("InvalidStateError", "", 0, "NONE", None)

\* Every way a phase's own code can leave phase.run.
Outcomes ==
    {NoExc, KeyboardInterrupt}
      \cup {TerminateRun(s) : s \in TerminateStatuses}
      \cup {FailedRun(f) : f \in Faults}
      \cup {Raised(c, m, 0, "NONE", None) : c \in ExcClasses, m \in ExcMessages}
      \cup {SystemExit(c) : c \in ExitCodes}

\* Result of a call as its caller sees it.
CallResult(kind, exc) == [kind |-> kind, exc |-> exc]

NoResult == CallResult("none", NoExc)

Returned == CallResult("returned", NoExc)

\* Phase lists the constructor accepts: ids are unique (unique_phases_to_dict).
PhaseLists ==
    UNION {[1..n -> PhaseKinds] : n \in 0..MaxPhases}

MakePhases(cfg) ==
    [i \in DOMAIN cfg |-> Phase(PhaseIds[i], "EXEC", cfg[i][1], cfg[i][2])]

Truthy_Always(status) == TRUE

\* The truth value of a TerminationStatus (lines 267, 329): only NONE is falsy.
Truthy(status) == status # "NONE"

\* ------------------------------------------------ Output-to-Task: values
\* runtools.runner.task.OutputToTask.  Timestamps are left out here as well.

MaxLines == 3       \* lines of output handed to new_output

\* A value of a field: absent (Python None), a string or a number.
NoneVal == [kind |-> "none", num |-> 0, str |-> ""]

Str(s) == [kind |-> "str", num |-> 0, str |-> s]

Num(n) == [kind |-> "num", num |-> n, str |-> ""]

\* The truth value Python gives a field value: None, 0 and "" are falsy.
Bool(v) ==
    CASE v.kind = "none" -> FALSE
      [] v.kind = "num" -> v.num # 0
      [] OTHER -> v.str # ""

\* Python's `a or b`.
Or(a, b) == IF Bool(a) THEN a ELSE b

\* The strings that parse as numbers, with their values.
Numbers == [s \in {"0", "5", "10", "100"} |->
              CASE s = "0" -> 0 [] s = "5" -> 5 [] s = "10" -> 10 [] OTHER -> 100]

\* runcore.util.convert_if_number: a number if the string parses, else the value.
convert_if_number(v) ==
    IF v.kind = "str" /\ v.str \in DOMAIN Numbers THEN Num(Numbers[v.str]) ELSE v

Get_Default(kv, key) == Str("x")

\* dict.get
Get(kv, key) == IF key \in DOMAIN kv THEN kv[key] ELSE NoneVal

\* dict.update
Update(kv, other) ==
    [k \in DOMAIN kv \cup DOMAIN other |-> IF k \in DOMAIN other THEN other[k] ELSE kv[k]]

EmptyMap == [k \in {} |-> NoneVal]

\* The keys field_conversion reads (lines 24-32; timestamp left out).
Fields == {"event", "task", "operation", "completed", "increment", "total", "unit",
           "result"}

NumericFields == {"completed", "increment", "total"}

\* field_conversion, lines 23-36: known keys only, numbers converted, None dropped.
field_conversion(parsed) ==
    LET converted == [k \in Fields |->
                        IF k \in NumericFields THEN convert_if_number(Get(parsed, k))
                                                ELSE Get(parsed, k)]
    IN  [k \in {f \in Fields : converted[f] # NoneVal} |-> converted[k]]

\* What one parser returns for a line: None, or a map of strings.
ParserResult(matched, kv) == [matched |-> matched, kv |-> kv]

NoMatch == ParserResult(FALSE, EmptyMap)

\* The truth value of a parser's result (line 68): None and {} are falsy.
Parsed(result) == result.matched /\ DOMAIN result.kv # {}

\* ----------------------------------------------- Output-to-Task: tracker
\* The task tracker is a collaborator of another repository; it is modelled after
\* the description of its operations.  Target 0 is the tracker itself, target
\* i > 0 its i-th subtask.

Operation(name, amount, total, unit, increment) ==
    [name |-> name, amount |-> amount, total |-> total, unit |-> unit,
     increment |-> increment]

NewOperation(name) == Operation(name, NoneVal, NoneVal, NoneVal, FALSE)

NewTask(name) ==
    [name |-> name, events |-> {}, operations |-> <<>>, is_finished |-> FALSE,
     result |-> NoneVal]

NewTracker == [root |-> NewTask(""), subtasks |-> <<>>]

Target(tr, t) == IF t = 0 THEN tr.root ELSE tr.subtasks[t]

WithTarget(tr, t, task) ==
    IF t = 0 THEN [tr EXCEPT !.root = task] ELSE [tr EXCEPT !.subtasks[t] = task]

\* A call made on the tracker or on one of its tasks.
Call(call, target, name, op) == [call |-> call, target |-> target, name |-> name, op |-> op]

\* tracker.subtask(name): the last child if it has that name, else a new child.
subtask(tr, name) ==
    LET n == Len(tr.subtasks)
    IN  IF n > 0 /\ tr.subtasks[n].name = name
          THEN [tracker |-> tr, target |-> n]
          ELSE [tracker |-> [tr EXCEPT !.subtasks = Append(@, NewTask(name))],
                target |-> n + 1]

\* The position of the operation called name among a task's operations, 0 if none.
OperationIndex(task, name) ==
    IF \E i \in 1..Len(task.operations) : task.operations[i].name = name
      THEN CHOOSE i \in 1..Len(task.operations) : task.operations[i].name = name
      ELSE 0

\* task.operation(name) followed by op.update(...): look up or create, then update.
operation_update(tr, t, name, amount, total, unit, increment) ==
    LET task == Target(tr, t)
        i == OperationIndex(task, name)
        op == Operation(name, amount, total, unit, increment)
    IN  WithTarget(tr, t,
          IF i = 0 THEN [task EXCEPT !.operations = Append(@, op)]
                   ELSE [task EXCEPT !.operations[i] = op])

\* task.event(name)
event(tr, t, name) ==
    WithTarget(tr, t, [Target(tr, t) EXCEPT !.events = @ \cup {name}])

\* task.finished(result)
finished(tr, t, result) ==
    WithTarget(tr, t, [Target(tr, t) EXCEPT !.is_finished = TRUE, !.result = result])

\* ------------------------------------------------ Output-to-Task: update

Present_NotNone(v) == v # NoneVal

\* _update_operation, line 112: whether a field counts as given.
Present(v) == Bool(v)

\* OutputToTask._update_operation, lines 104-117, on target t.
_update_operation(tr, t, fields) ==
    LET op_name == Or(Get(fields, "operation"), Get(fields, "event"))
        completed == Get(fields, "completed")
        increment == Get(fields, "increment")
        total == Get(fields, "total")
        unit == Get(fields, "unit")
    IN  IF ~Present(completed) /\ ~Present(increment) /\ ~Present(total) /\ ~Present(unit)
          THEN [tracker |-> tr, calls |-> <<>>, is_op |-> FALSE]
          ELSE LET op == Operation(op_name, Or(completed, increment), total, unit,
                                   increment # NoneVal)
               IN  [tracker |-> operation_update(tr, t, op_name, op.amount, total, unit,
                                                 op.increment),
                    calls |-> <<Call("operation", t, op_name, op)>>,
                    is_op |-> TRUE]

SameTask_Never(prev, cur) == FALSE

\* _update_task, line 87: prev_task == current_task, prev 0 standing for None.
SameTask(prev, cur) == prev > 0 /\ prev = cur

TailTarget_Root(tr, prev_task) == 0

\* _update_task, lines 90-93: the target of a line without a task.
TailTarget(tr, prev_task) ==
    IF prev_task > 0 /\ ~tr.subtasks[prev_task].is_finished THEN prev_task ELSE 0

\* OutputToTask._update_task, lines 81-101.
_update_task(tr, fields) ==
    LET task == Get(fields, "task")
        prev_task == Len(tr.subtasks)
        sub == subtask(tr, task.str)
        current_task == IF Bool(task) THEN sub.target ELSE TailTarget(tr, prev_task)
        is_finished == Bool(task) /\ SameTask(prev_task, current_task)
        tr1 == IF Bool(task) THEN sub.tracker ELSE tr
        calls1 == IF Bool(task) THEN <<Call("subtask", 0, task, NewOperation(NoneVal))>>
                                ELSE <<>>
        upd == _update_operation(tr1, current_task, fields)
        ev == Get(fields, "event")
        is_ev == Bool(ev) /\ ~upd.is_op
        tr2 == IF is_ev THEN event(upd.tracker, current_task, ev) ELSE upd.tracker
        calls2 == IF is_ev THEN <<Call("event", current_task, ev, NewOperation(NoneVal))>>
                           ELSE <<>>
        result == Get(fields, "result")
        is_fin == Bool(result) \/ is_finished
        tr3 == IF is_fin THEN finished(tr2, current_task, result) ELSE tr2
        calls3 == IF is_fin
                    THEN <<Call("finished", current_task, result, NewOperation(NoneVal))>>
                    ELSE <<>>
    IN  [tracker |-> tr3, calls |-> calls1 \o upd.calls \o calls2 \o calls3]

RECURSIVE Merge(_, _)
\* new_output, lines 67-70: the parsers' non-empty results merged in order.
Merge(results, parsed) ==
    IF results = <<>> THEN parsed
    ELSE Merge(Tail(results),
               IF Parsed(Head(results)) THEN Update(parsed, Head(results).kv) ELSE parsed)

\* OutputToTask.new_output, lines 66-79; output is given as what each parser
\* returns for it.
new_output(tr, output) ==
    LET parsed == Merge(output, EmptyMap)
        kv == field_conversion(parsed)
    IN  IF DOMAIN parsed = {} THEN [tracker |-> tr, calls |-> <<>>]
        ELSE IF DOMAIN kv = {} THEN [tracker |-> tr, calls |-> <<>>]
        ELSE _update_task(tr, kv)

\* ---------------------------------------------- Output-to-Task: the lines

Tasks == {NoneVal, Str("build"), Str("test")}

Results == {NoneVal, Str("ok"), Str("")}

\* (event, operation, completed, increment, total, unit) as the pattern captured them.
Bodies ==
    {<<NoneVal, NoneVal, NoneVal, NoneVal, NoneVal, NoneVal>>,
     <<Str("start"), NoneVal, NoneVal, NoneVal, NoneVal, NoneVal>>,
     <<NoneVal, Str("compile"), Str("10"), NoneVal, Str("100"), Str("files")>>,
     <<NoneVal, Str("compile"), Str("100"), NoneVal, Str("100"), Str("files")>>,
     <<Str("load"), NoneVal, NoneVal, Str("5"), NoneVal, NoneVal>>,
     <<Str("zero"), NoneVal, Str("0"), NoneVal, NoneVal, NoneVal>>}

\* A dict holds the keys whose value is given.
Dict(all) == [k \in {f \in DOMAIN all : all[f] # NoneVal} |-> all[k]]

Line(task, body, result) ==
    Dict([task |-> task, event |-> body[1], operation |-> body[2], completed |-> body[3],
          increment |-> body[4], total |-> body[5], unit |-> body[6], result |-> result])

\* What the first parser, a pattern with the known field names, returns.
FirstParser ==
    {NoMatch} \cup {ParserResult(TRUE, Line(t, b, r)) : t \in Tasks, b \in Bodies, r \in Results}

\* What the second parser, which knows a key no field is named after, returns.
SecondParser == {NoMatch, ParserResult(TRUE, [level |-> Str("info")])}

\* Lines both parsers match are rare: a line of the first parser's format with the
\* second parser's key in it.
BothMatch ==
    {NoMatch, ParserResult(TRUE, EmptyMap),
     ParserResult(TRUE, Line(Str("build"), <<Str("start"), NoneVal, NoneVal, NoneVal,
                                             NoneVal, NoneVal>>, NoneVal))}

Outputs ==
    {<<p1, NoMatch>> : p1 \in FirstParser}
      \cup {<<p1, p2>> : p1 \in BothMatch, p2 \in SecondParser}

VARIABLES
    phases,           \* Phaser._key_to_phase.values(), in order
    transition_hook,  \* Phaser.transition_hook: None, or a hook that is "quiet" or "raising"
    output_hook,      \* Phaser.output_hook: None, or a hook that is "quiet" or "raising"
    lifecycle,        \* Phaser._lifecycle.phase_runs
    current_phase,    \* Phaser._current_phase
    stop_status,      \* Phaser._stop_status
    abort,            \* Phaser._abort
    termination,      \* Phaser._termination
    lock,             \* owner of Phaser._transition_lock
    dpc,              \* driver thread: position in prime() / run()
    idx,              \* driver thread: index of the loop's phase
    term_info,        \* driver thread: first result of _run_handle_errors
    exc,              \* driver thread: second result of _run_handle_errors
    runs,             \* number of run() calls made
    prime_result,     \* how the last prime() call ended
    run_result,       \* how the last run() call ended
    spc,              \* stopping thread: position in stop()
    stops,            \* number of stop() calls made
    stop_result,      \* how the last stop() call ended
    wpc,              \* waiting thread: position in wait_for_transition()
    w_phase_id,       \* waiting thread: the phase_id argument
    w_early,          \* waiting thread: the call was made before run() was called
    stop_calls,       \* history: phase.stop() invocations, in order
    outcomes,         \* history: how each phase.run call ended, in order
    hook_raised,      \* history: the transition hook has raised
    hook_calls,       \* history: arguments of the transition hook's calls, in order
    stop_seen,        \* history: what the latest stop() that got past the guard saw
    tracker,          \* OutputToTask.tracker
    output,           \* the last line handed to new_output, as the parsers' results
    calls,            \* history: the tracker calls made for the last line
    lines             \* number of lines handed to new_output

vars == <<phases, transition_hook, output_hook, lifecycle, current_phase, stop_status,
          abort, termination, lock, dpc, idx, term_info, exc, runs,
          prime_result, run_result, spc, stops, stop_result, wpc, w_phase_id,
          w_early, stop_calls, outcomes, hook_raised, hook_calls, stop_seen,
          tracker, output, calls, lines>>

\* OutputToTask's state.
task_state == <<tracker, output, calls, lines>>

\* What no method of the Phaser writes.
config == <<phases, transition_hook, output_hook, task_state>>

driver == <<dpc, idx, term_info, exc, runs, prime_result, run_result>>

stopper == <<spc, stops, stop_result>>

waiter == <<wpc, w_phase_id, w_early>>

NoStopSeen == [n |-> 0, phase |-> NoPhase, at |-> 0]

\* The state after Phaser(phases) and the assignment of the two hooks.
Constructed(hooks) ==
    /\ phases \in {MakePhases(cfg) : cfg \in PhaseLists}
    /\ \E h \in hooks : transition_hook = h[1] /\ output_hook = h[2]
    /\ lifecycle = <<>>
    /\ current_phase = NoPhase
    /\ stop_status = "NONE"
    /\ abort = FALSE
    /\ termination = NoTermination
    /\ lock = "free"
    /\ dpc = "idle"
    /\ idx = 0
    /\ term_info = NoTermination
    /\ exc = NoExc
    /\ runs = 0
    /\ prime_result = NoResult
    /\ run_result = NoResult
    /\ spc = "idle"
    /\ stops = 0
    /\ stop_result = NoResult
    /\ wpc = "idle"
    /\ w_phase_id = None
    /\ w_early = FALSE
    /\ outcomes = <<>>
    /\ stop_calls = <<>>
    /\ hook_raised = FALSE
    /\ hook_calls = <<>>
    /\ stop_seen = NoStopSeen
    /\ tracker = NewTracker
    /\ output = <<>>
    /\ calls = <<>>
    /\ lines = 0

\* Hooks that never raise.
Init == Constructed({<<None, None>>, <<"quiet", "quiet">>})

\* Hooks that may raise on any call.
InitHooks == Constructed({<<"raising", "raising">>})

\* ------------------------------------------------------------ pure parts

\* Phaser._term_info without the timestamp.
_term_info(status, failure, error) == TerminationInfo(status, failure, error)

\* InitPhase() and TerminalPhase() are built afresh for every transition, so
\* only a configured phase can be the object that is already current.
SameObject(p, q) == p.type = "EXEC" /\ p = q

\* _run_handle_errors, line 290.
TerminateInfo(raised) == _term_info(raised.term_status, None, NoError)

FailedInfo_NoFault(raised) == _term_info("FAILED", None, NoError)

\* _run_handle_errors, line 292.
FailedInfo(raised) == _term_info("FAILED", raised.fault, NoError)

ErrorInfo_Swapped(raised) == _term_info("ERROR", None, RunError(raised.msg, raised.cls))

\* _run_handle_errors, lines 295-296: category is the class name, message is str(e).
ErrorInfo(raised) == _term_info("ERROR", None, RunError(raised.cls, raised.msg))

ExitInfo_Failed(raised) == _term_info("FAILED", None, NoError)

\* _run_handle_errors, lines 303-304.
ExitInfo(raised) ==
    _term_info(IF raised.code = 0 THEN "COMPLETED" ELSE "FAILED", None, NoError)

\* The except clauses of _run_handle_errors, in their order.
_run_handle_errors(raised) ==
    CASE raised.cls = None ->
           [term_info |-> NoTermination, exc |-> NoExc]
      [] raised.cls = "TerminateRun" ->
           [term_info |-> TerminateInfo(raised), exc |-> NoExc]
      [] raised.cls = "FailedRun" ->
           [term_info |-> FailedInfo(raised), exc |-> NoExc]
      [] raised.cls = "KeyboardInterrupt" ->
           [term_info |-> _term_info("INTERRUPTED", None, NoError), exc |-> raised]
      [] raised.cls = "SystemExit" ->
           [term_info |-> ExitInfo(raised), exc |-> raised]
      [] OTHER ->
           [term_info |-> ErrorInfo(raised), exc |-> raised]

ResolveTermination_InfoFirst(stop, info, term) ==
    IF info # NoTermination THEN info
    ELSE IF Truthy(stop) THEN _term_info(stop, None, NoError)
    ELSE term

ResolveTermination_DropsInfo(stop, info, term) ==
    IF Truthy(stop) THEN _term_info(stop, None, NoError) ELSE term

\* run(), lines 267-270: the termination after a phase has been handled.
ResolveTermination(stop, info, term) ==
    IF Truthy(stop) THEN _term_info(stop, None, NoError)
    ELSE IF info # NoTermination THEN info
    ELSE term

StopIsNoOp_Never(term) == FALSE

\* stop(), line 326: the guard that makes a call a no-op.
StopIsNoOp(term) == term # NoTermination

\* stop(), line 329.
StopStatusFor(cur) == IF cur # NoPhase THEN cur.stop_status ELSE "STOPPED"

\* stop(), line 330.
NotStarted(cur) == cur = NoPhase \/ cur.type = "INIT"

Release_Held(owner) == owner

\* The end of a `with self._transition_lock` block, left by return or by raise
\* (lines 232, 258, 266, 280, 325, 339): the owner gives the lock up.
Release(owner) == "free"

Primed_Never(cur) == FALSE

\* prime(), line 233, and run(), line 238: the truth value of _current_phase.
Primed(cur) == cur # NoPhase

\* run(), line 259.
AbortRequested(flag) == flag

\* wait_for_transition(), line 342; run_state defaults to RunState.NONE.
Matches(run, phase_id, run_state) ==
    run.phase_id = phase_id \/ run.run_state = run_state

FoundTransition(lc, phase_id, run_state) ==
    \E i \in 1..Len(lc) : Matches(lc[i], phase_id, run_state)

\* Whether a call of a hook raises.
HookRaises(hook) == IF hook = "raising" THEN BOOLEAN ELSE {FALSE}

Snapshot_NoPrevious(lc) ==
    [previous_run |-> PhaseRun(NoPhase), current_run |-> lc[Len(lc)], phase_count |-> Len(lc)]

\* execute_transition_hook_safely, lines 320-322: the hook's arguments.
Snapshot(lc) ==
    [previous_run |-> IF Len(lc) > 1 THEN lc[Len(lc) - 1] ELSE PhaseRun(NoPhase),
     current_run |-> lc[Len(lc)],
     phase_count |-> Len(lc)]

\* _next_phase, lines 312-317: the hook's exception leaves before notify_all.
_next_phase(phase, raises) ==
    /\ current_phase' = phase
    /\ lifecycle' = Append(lifecycle, PhaseRun(phase))
    /\ hook_calls' = IF transition_hook # None
                        THEN Append(hook_calls, Snapshot(lifecycle'))
                        ELSE hook_calls
    /\ hook_raised' = (hook_raised \/ raises)
    /\ wpc' = IF ~raises /\ wpc = "waiting" THEN "woken" ELSE wpc

\* The variables _next_phase writes.
transition == <<current_phase, lifecycle, hook_calls, hook_raised, wpc>>

NoTransition == UNCHANGED transition

Ended(raises, otherwise) ==
    IF raises THEN CallResult("raised", HookError) ELSE otherwise

\* ---------------------------------------------------------- driver thread

\* prime(), line 232: take the lock.
CallPrime ==
    /\ dpc = "idle"
    /\ lock = "free"
    /\ lock' = "driver"
    /\ dpc' = "prime"
    /\ prime_result' = NoResult
    /\ UNCHANGED <<config, transition, stop_status, abort, termination>>
    /\ UNCHANGED <<idx, term_info, exc, runs, run_result, stopper, w_phase_id, w_early>>
    /\ UNCHANGED <<stop_calls, outcomes, stop_seen>>

\* prime(), lines 233-235.
Prime ==
    /\ dpc = "prime"
    /\ IF Primed(current_phase)
         THEN /\ prime_result' = CallResult("raised", InvalidStateError)
              /\ NoTransition
         ELSE \E r \in HookRaises(transition_hook) :
                /\ _next_phase(InitPhase, r)
                /\ prime_result' = Ended(r, Returned)
    /\ dpc' = "idle"
    /\ lock' = Release(lock)
    /\ UNCHANGED <<config, stop_status, abort, termination>>
    /\ UNCHANGED <<idx, term_info, exc, runs, run_result, stopper, w_phase_id, w_early>>
    /\ UNCHANGED <<stop_calls, outcomes, stop_seen>>

\* run(), lines 238-239: read of _current_phase without the lock.
RunStart ==
    /\ dpc = "idle"
    /\ runs' = runs + 1
    /\ IF ~Primed(current_phase)
         THEN /\ run_result' = CallResult("raised", InvalidStateError)
              /\ UNCHANGED <<dpc, idx>>
         ELSE /\ run_result' = NoResult
              /\ dpc' = "loop"
              /\ idx' = 1
    /\ UNCHANGED <<config, transition, stop_status, abort, termination, lock>>
    /\ UNCHANGED <<term_info, exc, prime_result, stopper, w_phase_id, w_early>>
    /\ UNCHANGED <<stop_calls, outcomes, stop_seen>>

\* The driver's first call of run().
CallRun == runs = 0 /\ RunStart

\* A further call of run(), made after the previous one has ended.
CallRunAgain == runs > 0 /\ runs < MaxRuns /\ RunStart

\* run(), lines 257-258: next iteration, take the lock.
LoopAcquire ==
    /\ dpc = "loop"
    /\ idx <= Len(phases)
    /\ lock = "free"
    /\ lock' = "driver"
    /\ dpc' = "enter"
    /\ UNCHANGED <<config, transition, stop_status, abort, termination>>
    /\ UNCHANGED <<idx, term_info, exc, runs, prime_result, run_result, stopper,
                   w_phase_id, w_early>>
    /\ UNCHANGED <<stop_calls, outcomes, stop_seen>>

\* run(), lines 259-262, with the assertion of line 310.
LoopEnter ==
    /\ dpc = "enter"
    /\ IF AbortRequested(abort)
         THEN /\ run_result' = Returned
              /\ dpc' = "idle"
              /\ NoTransition
         ELSE IF SameObject(current_phase, phases[idx])
         THEN /\ run_result' = CallResult("raised", AssertionError)
              /\ dpc' = "idle"
              /\ NoTransition
         ELSE \E r \in HookRaises(transition_hook) :
                /\ _next_phase(phases[idx], r)
                /\ run_result' = Ended(r, NoResult)
                /\ dpc' = IF r THEN "idle" ELSE "phase_run"
    /\ lock' = Release(lock)
    /\ UNCHANGED <<config, stop_status, abort, termination>>
    /\ UNCHANGED <<idx, term_info, exc, runs, prime_result, stopper, w_phase_id, w_early>>
    /\ UNCHANGED <<stop_calls, outcomes, stop_seen>>

\* _RunContext.new_output, line 255, called once by the phase in progress: the
\* exception of the hook, or of calling None, leaves phase.run uncaught.
PhaseOutput ==
    /\ dpc = "phase_run"
    /\ \E r \in (IF output_hook = None THEN {TRUE} ELSE HookRaises(output_hook)) :
         IF r
           THEN LET o == IF output_hook = None THEN TypeError ELSE HookError
                    h == _run_handle_errors(o)
                IN  /\ term_info' = h.term_info
                    /\ exc' = h.exc
                    /\ outcomes' = Append(outcomes, [phase |-> phases[idx].id, raised |-> o])
                    /\ dpc' = "handled"
           ELSE /\ dpc' = "phase_out"
                /\ UNCHANGED <<term_info, exc, outcomes>>
    /\ UNCHANGED <<config, transition, stop_status, abort, termination, lock>>
    /\ UNCHANGED <<idx, runs, prime_result, run_result, stopper, w_phase_id, w_early>>
    /\ UNCHANGED <<stop_calls, stop_seen>>

\* _run_handle_errors, lines 286-304: phase.run ends by itself; the handler of
\* KeyboardInterrupt calls phase.stop().
PhaseFinish ==
    /\ dpc \in {"phase_run", "phase_out"}
    /\ \E o \in Outcomes :
         LET h == _run_handle_errors(o)
         IN  /\ term_info' = h.term_info
             /\ exc' = h.exc
             /\ outcomes' = Append(outcomes, [phase |-> phases[idx].id, raised |-> o])
             /\ stop_calls' = IF o.cls = "KeyboardInterrupt"
                                THEN Append(stop_calls, [phase |-> phases[idx].id,
                                                         by |-> "driver", n |-> 0])
                                ELSE stop_calls
    /\ dpc' = "handled"
    /\ UNCHANGED <<config, transition, stop_status, abort, termination, lock>>
    /\ UNCHANGED <<idx, runs, prime_result, run_result, stopper, w_phase_id, w_early>>
    /\ UNCHANGED stop_seen

\* run(), line 266: take the lock again.
ResolveAcquire ==
    /\ dpc = "handled"
    /\ lock = "free"
    /\ lock' = "driver"
    /\ dpc' = "resolve"
    /\ UNCHANGED <<config, transition, stop_status, abort, termination>>
    /\ UNCHANGED <<idx, term_info, exc, runs, prime_result, run_result, stopper,
                   w_phase_id, w_early>>
    /\ UNCHANGED <<stop_calls, outcomes, stop_seen>>

\* run(), lines 267-278, with the assertion of line 273.
Resolve ==
    /\ dpc = "resolve"
    /\ termination' = ResolveTermination(stop_status, term_info, termination)
    /\ IF exc # NoExc /\ termination' = NoTermination
         THEN /\ NoTransition
              /\ run_result' = CallResult("raised", AssertionError)
              /\ dpc' = "idle"
              /\ UNCHANGED idx
         ELSE IF exc # NoExc
         THEN \E r \in HookRaises(transition_hook) :
                /\ _next_phase(TerminalPhase, r)
                /\ run_result' = Ended(r, CallResult("raised", exc))
                /\ dpc' = "idle"
                /\ UNCHANGED idx
         ELSE IF termination' # NoTermination
         THEN \E r \in HookRaises(transition_hook) :
                /\ _next_phase(TerminalPhase, r)
                /\ run_result' = Ended(r, Returned)
                /\ dpc' = "idle"
                /\ UNCHANGED idx
         ELSE /\ NoTransition
              /\ dpc' = "loop"
              /\ idx' = idx + 1
              /\ UNCHANGED run_result
    /\ lock' = Release(lock)
    /\ term_info' = NoTermination
    /\ exc' = NoExc
    /\ UNCHANGED <<config, stop_status, abort>>
    /\ UNCHANGED <<runs, prime_result, stopper, w_phase_id, w_early>>
    /\ UNCHANGED <<stop_calls, outcomes, stop_seen>>

\* run(), line 280: the loop is over, take the lock.
FinalAcquire ==
    /\ dpc = "loop"
    /\ idx > Len(phases)
    /\ lock = "free"
    /\ lock' = "driver"
    /\ dpc' = "final"
    /\ UNCHANGED <<config, transition, stop_status, abort, termination>>
    /\ UNCHANGED <<idx, term_info, exc, runs, prime_result, run_result, stopper,
                   w_phase_id, w_early>>
    /\ UNCHANGED <<stop_calls, outcomes, stop_seen>>

\* run(), lines 281-282.
Final ==
    /\ dpc = "final"
    /\ termination' = _term_info("COMPLETED", None, NoError)
    /\ \E r \in HookRaises(transition_hook) :
         /\ _next_phase(TerminalPhase, r)
         /\ run_result' = Ended(r, Returned)
    /\ dpc' = "idle"
    /\ lock' = Release(lock)
    /\ UNCHANGED <<config, stop_status, abort>>
    /\ UNCHANGED <<idx, term_info, exc, runs, prime_result, stopper, w_phase_id, w_early>>
    /\ UNCHANGED <<stop_calls, outcomes, stop_seen>>

\* -------------------------------------------------------- stopping thread

\* stop(), line 325: take the lock.
CallStop ==
    /\ spc = "idle"
    /\ stops < MaxStops
    /\ lock = "free"
    /\ lock' = "stopper"
    /\ spc' = "locked"
    /\ stops' = stops + 1
    /\ stop_result' = NoResult
    /\ UNCHANGED <<config, transition, stop_status, abort, termination>>
    /\ UNCHANGED <<driver, w_phase_id, w_early>>
    /\ UNCHANGED <<stop_calls, outcomes, stop_seen>>

\* stop(), lines 326-334.
Stop ==
    /\ spc = "locked"
    /\ IF StopIsNoOp(termination)
         THEN /\ spc' = "idle"
              /\ stop_result' = Returned
              /\ NoTransition
              /\ UNCHANGED <<stop_status, abort, termination, stop_seen>>
         ELSE /\ stop_status' = StopStatusFor(current_phase)
              /\ stop_seen' = [n |-> stops, phase |-> current_phase, at |-> Len(lifecycle)]
              /\ IF NotStarted(current_phase)
                   THEN /\ abort' = TRUE
                        /\ termination' = _term_info(stop_status', None, NoError)
                        /\ \E r \in HookRaises(transition_hook) :
                             /\ _next_phase(TerminalPhase, r)
                             /\ spc' = IF r THEN "idle" ELSE "call_stop"
                             /\ stop_result' = Ended(r, NoResult)
                   ELSE /\ spc' = "call_stop"
                        /\ NoTransition
                        /\ UNCHANGED <<abort, termination, stop_result>>
    /\ lock' = Release(lock)
    /\ UNCHANGED <<config, driver, stops, w_phase_id, w_early>>
    /\ UNCHANGED <<stop_calls, outcomes>>

\* stop(), line 336: read of _current_phase without the lock.
StopPhase ==
    /\ spc = "call_stop"
    /\ stop_calls' = Append(stop_calls, [phase |-> current_phase.id, by |-> "stop",
                                         n |-> stops])
    /\ spc' = "idle"
    /\ stop_result' = Returned
    /\ UNCHANGED <<config, transition, stop_status, abort, termination, lock>>
    /\ UNCHANGED <<driver, stops, w_phase_id, w_early>>
    /\ UNCHANGED <<outcomes, stop_seen>>

\* --------------------------------------------------------- waiting thread

WaitIds == {PhaseIds[i] : i \in 1..MaxPhases}

\* wait_for_transition(phase_id), line 339: take the lock.
CallWait ==
    /\ wpc = "idle"
    /\ lock = "free"
    /\ \E id \in WaitIds : w_phase_id' = id
    /\ w_early' = (runs = 0)
    /\ wpc' = "scan"
    /\ lock' = "waiter"
    /\ UNCHANGED <<config, current_phase, lifecycle, hook_calls, hook_raised>>
    /\ UNCHANGED <<stop_status, abort, termination, driver, stopper>>
    /\ UNCHANGED <<stop_calls, outcomes, stop_seen>>

\* wait_for_transition(), lines 341-345: scan, then return True or wait.
Scan ==
    /\ wpc \in {"scan", "rescan"}
    /\ wpc' = IF FoundTransition(lifecycle, w_phase_id, "NONE") THEN "returned"
                                                                 ELSE "waiting"
    /\ lock' = Release(lock)
    /\ UNCHANGED <<config, current_phase, lifecycle, hook_calls, hook_raised>>
    /\ UNCHANGED <<stop_status, abort, termination, driver, stopper, w_phase_id, w_early>>
    /\ UNCHANGED <<stop_calls, outcomes, stop_seen>>

\* wait_for_transition(), lines 345-348: notified, the lock is taken back and,
\* a phase_id being given, the scan is repeated.
Wake ==
    /\ wpc = "woken"
    /\ lock = "free"
    /\ lock' = "waiter"
    /\ wpc' = "rescan"
    /\ UNCHANGED <<config, current_phase, lifecycle, hook_calls, hook_raised>>
    /\ UNCHANGED <<stop_status, abort, termination, driver, stopper, w_phase_id, w_early>>
    /\ UNCHANGED <<stop_calls, outcomes, stop_seen>>

\* One run() call, any number of prime() calls, stop() calls from another thread.
Next ==
    \/ CallPrime
    \/ Prime
    \/ CallRun
    \/ LoopAcquire
    \/ LoopEnter
    \/ PhaseOutput
    \/ PhaseFinish
    \/ ResolveAcquire
    \/ Resolve
    \/ FinalAcquire
    \/ Final
    \/ CallStop
    \/ Stop
    \/ StopPhase

\* ... and a thread waiting for a transition.
NextWait ==
    \/ Next
    \/ CallWait
    \/ Scan
    \/ Wake

\* ... and run() called again after it has ended.
NextRerun ==
    \/ Next
    \/ CallRunAgain

Spec == Init /\ [][Next]_vars

SpecHooks == InitHooks /\ [][Next]_vars

SpecWait == Init /\ [][NextWait]_vars

SpecRerun == Init /\ [][NextRerun]_vars

\* A waiting thread on a Phaser whose hooks may raise.
SpecWaitHooks == InitHooks /\ [][NextWait]_vars

\* The steps a thread takes by itself once it is inside prime() or run(); the
\* phases' run methods end.
DriverStep ==
    \/ Prime
    \/ LoopAcquire
    \/ LoopEnter
    \/ PhaseOutput
    \/ PhaseFinish
    \/ ResolveAcquire
    \/ Resolve
    \/ FinalAcquire
    \/ Final

\* ... inside stop().
StopperStep == Stop \/ StopPhase

\* ... inside wait_for_transition(): a notified thread takes the lock back and
\* scans again, a thread that holds the lock scans.
WaiterStep == Scan \/ Wake

\* The threads are scheduled fairly: a thread that can again and again take a
\* step of the method it is in, the lock being free again and again, eventually
\* takes it. When a method is called is left open.
SpecWaitFair ==
    /\ SpecWait
    /\ SF_vars(DriverStep)
    /\ SF_vars(StopperStep)
    /\ SF_vars(WaiterStep)

\* ----------------------------------------------------------- Output-to-Task

\* OutputToTask(tracker, parsers) on its own: no Phaser method is called.
InitTask ==
    /\ Constructed({<<None, None>>})
    /\ phases = <<>>

\* OutputToTask.__call__, line 46: one line of output.
NewOutput ==
    /\ lines < MaxLines
    /\ \E o \in Outputs :
         LET r == new_output(tracker, o)
         IN  /\ output' = o
             /\ tracker' = r.tracker
             /\ calls' = r.calls
    /\ lines' = lines + 1
    /\ UNCHANGED <<phases, transition_hook, output_hook, transition, stop_status, abort,
                   termination, lock, driver, stopper, w_phase_id, w_early>>
    /\ UNCHANGED <<stop_calls, outcomes, stop_seen>>

NextTask == NewOutput

SpecTask == InitTask /\ [][NextTask]_vars

TypeOK ==
    /\ lock \in {"free", "driver", "stopper", "waiter"}
    /\ dpc \in {"idle", "prime", "loop", "enter", "phase_run", "phase_out", "handled",
                "resolve", "final"}
    /\ spc \in {"idle", "locked", "call_stop"}
    /\ wpc \in {"idle", "scan", "rescan", "waiting", "woken", "returned"}

\* ---------------------------------------------------------------- properties

LifecycleIds == [i \in 1..Len(lifecycle) |-> lifecycle[i].phase_id]

ConfiguredIds == [i \in 1..Len(phases) |-> phases[i].id]

PhaseIndex(id) ==
    IF \E i \in 1..Len(phases) : phases[i].id = id
      THEN CHOOSE i \in 1..Len(phases) : phases[i].id = id
      ELSE 0

EndsWithTerminal ==
    Len(lifecycle) > 0 /\ lifecycle[Len(lifecycle)] = PhaseRun(TerminalPhase)

\* A run() call that passed the check of line 238 has ended.
RunEnded == runs > 0 /\ dpc = "idle" /\ run_result.exc # InvalidStateError

AllReturned == \A i \in 1..Len(outcomes) : outcomes[i].raised = NoExc

\* The last stop() call that passed the guard of line 326 saw configured phase p:
\* no later phase is entered after it and the termination carries p.stop_status.
StopWinsAt(p) ==
    /\ \A i \in (stop_seen.at + 1)..Len(lifecycle) :
         PhaseIndex(lifecycle[i].phase_id) <= PhaseIndex(p.id)
    /\ termination # NoTermination => termination.status = p.stop_status

\* C1: a stop() that takes the lock while configured phase P is current and no
\* termination is recorded makes P.stop_status the final status and keeps every
\* phase after P from being entered (stated here for the phases whose stop_status
\* is not NONE, the ones for which stop() records a stop request at all).
C1_StopWins ==
    (stop_seen.phase.type = "EXEC" /\ Truthy(stop_seen.phase.stop_status))
        => StopWinsAt(stop_seen.phase)

\* C2: an exception of the transition hook or of the output hook never reaches the
\* caller of prime(), run() or stop(), and a run whose phases all return normally
\* still ends COMPLETED.
C2_HooksSandboxed ==
    /\ prime_result.exc # HookError
    /\ run_result.exc # HookError
    /\ stop_result.exc # HookError
    /\ (RunEnded /\ AllReturned /\ stops = 0) => termination.status = "COMPLETED"

StopLeavesStateAlone ==
    /\ UNCHANGED <<lifecycle, stop_status, abort, termination>>
    /\ spc' # "call_stop"

C4_HappyPath ==
    (RunEnded /\ AllReturned /\ stops = 0)
        => /\ run_result = Returned
           /\ LifecycleIds = <<"Init">> \o ConfiguredIds \o <<"term">>
           /\ termination = TerminationInfo("COMPLETED", None, NoError)

C4_Witness ==
    /\ RunEnded
    /\ AllReturned
    /\ stops = 0
    /\ Len(phases) = MaxPhases
    /\ Len(outcomes) = MaxPhases
    /\ termination.status = "COMPLETED"

\* C5: when a run() call on a primed Phaser has ended, by return or by raising, the
\* last lifecycle entry is the Terminal phase run and the termination is set.
C5_EndsInTerminal ==
    RunEnded => (EndsWithTerminal /\ termination # NoTermination)

\* run() re-raised the phase's exception while stop() calls were made.
C5_Witness ==
    /\ RunEnded
    /\ run_result.kind = "raised"
    /\ stops > 0
    /\ EndsWithTerminal

\* C6: once a Terminal phase run is in the lifecycle nothing is appended after it,
\* so term occurs at most once, as the last entry, and the termination is set.
C6_TerminalIsFinal ==
    /\ \A i \in 1..(Len(lifecycle) - 1) : lifecycle[i].phase_id # "term"
    /\ (\E i \in 1..Len(lifecycle) : lifecycle[i].phase_id = "term")
         => termination # NoTermination

\* C7: after a stop() on a Phaser that is unprimed or at Init, the termination is
\* STOPPED and stays so, Terminal is entered at once, and nothing is appended to
\* the lifecycle afterwards, run() included.
C7_StopBeforeStart ==
    (stop_seen.n > 0 /\ NotStarted(stop_seen.phase))
        => /\ termination.status = "STOPPED"
           /\ Len(lifecycle) = stop_seen.at + 1
           /\ EndsWithTerminal

LastOutcome == outcomes[Len(outcomes)]

\* An exception that none of the clauses of lines 289-292 and 297-304 catches.
IsUnexpected(raised) ==
    raised.cls \notin {None, "TerminateRun", "FailedRun", "KeyboardInterrupt", "SystemExit"}

\* The run ended in phase id: its phase run is the last one before term.
EndedIn(id) ==
    /\ Len(lifecycle) >= 2
    /\ lifecycle[Len(lifecycle) - 1].phase_id = id
    /\ EndsWithTerminal

\* C8: without stop(), a phase raising an unexpected exception ends the run in that
\* phase with ERROR and error = (class name, text); run() raises the same
\* exception, and by then the termination is recorded and Terminal appended.
C8_UnexpectedException ==
    (RunEnded /\ stops = 0 /\ outcomes # <<>> /\ IsUnexpected(LastOutcome.raised))
        => /\ termination = TerminationInfo("ERROR", None,
                              RunError(LastOutcome.raised.cls, LastOutcome.raised.msg))
           /\ run_result = CallResult("raised", LastOutcome.raised)
           /\ EndedIn(LastOutcome.phase)

\* The first of two phases raised ValueError("boom").
C8_Witness ==
    /\ RunEnded
    /\ stops = 0
    /\ Len(phases) = 2
    /\ outcomes = <<[phase |-> "A", raised |-> Raised("ValueError", "boom", 0, "NONE", None)]>>
    /\ termination.error = RunError("ValueError", "boom")

\* C9: without stop(), failed-run(F) ends the run in that phase with FAILED and
\* failure = F, terminate-run(s) ends it with status s; run() returns normally.
C9_SignalledOutcomes ==
    (RunEnded /\ stops = 0 /\ outcomes # <<>>
       /\ LastOutcome.raised.cls \in {"FailedRun", "TerminateRun"})
        => /\ termination = IF LastOutcome.raised.cls = "FailedRun"
                              THEN TerminationInfo("FAILED", LastOutcome.raised.fault, NoError)
                              ELSE TerminationInfo(LastOutcome.raised.term_status, None, NoError)
           /\ run_result = Returned
           /\ EndedIn(LastOutcome.phase)

\* The first of two phases signalled failed-run(F1).
C9_Witness ==
    /\ RunEnded
    /\ stops = 0
    /\ Len(phases) = 2
    /\ outcomes = <<[phase |-> "A", raised |-> FailedRun("F1")]>>
    /\ termination.failure = "F1"

\* C10: wait_for_transition(phase_id = B), called before run(), returns only when
\* a phase run with phase id B is in the lifecycle.
C10_WaitReturnsAtEntry ==
    (wpc = "returned" /\ w_early)
        => \E i \in 1..Len(lifecycle) : lifecycle[i].phase_id = w_phase_id

PhaserState == <<lifecycle, current_phase, stop_status, abort, termination>>

\* C11: prime() on a Phaser that has a current phase, and run() on a Phaser that
\* has none, raise InvalidStateError and leave the lifecycle, the current phase,
\* the stop status, the abort flag and the termination as they were.
C11_MisuseNoSideEffects ==
    [][/\ (dpc = "prime" /\ dpc' = "idle" /\ current_phase # NoPhase)
            => (prime_result' = CallResult("raised", InvalidStateError)
                  /\ UNCHANGED PhaserState)
       /\ (runs' # runs /\ current_phase = NoPhase)
            => (run_result' = CallResult("raised", InvalidStateError)
                  /\ dpc' = "idle"
                  /\ UNCHANGED PhaserState)]_vars

\* run() was refused on the unprimed Phaser, then a second prime() was refused.
C11_Witness ==
    /\ run_result = CallResult("raised", InvalidStateError)
    /\ prime_result = CallResult("raised", InvalidStateError)
    /\ dpc = "idle"
    /\ Len(lifecycle) >= 1

FinalStatuses == {"COMPLETED", "STOPPED", "INTERRUPTED", "FAILED", "ERROR"}

\* C12: whenever Terminal has been reached the recorded termination status is one
\* of COMPLETED, STOPPED, INTERRUPTED, FAILED, ERROR, never NONE.
C12_StatusNeverNone ==
    EndsWithTerminal => termination.status \in FinalStatuses

\* A phase.run call of the driver thread is in progress.
InPhaseRun == dpc \in {"phase_run", "phase_out"}

\* A phase.stop call of the stopping thread is about to be made.
InPhaseStop == spc = "call_stop"

\* C13: the thread executing phase.run or phase.stop does not hold the transition
\* lock, so the only holders at such a moment are threads doing their bookkeeping
\* under the lock, which give it up without waiting for the phase.
C13_LockNotHeldInPhase ==
    /\ InPhaseRun => lock # "driver"
    /\ InPhaseStop => lock # "stopper"
    /\ lock = "driver" => dpc \in {"prime", "enter", "resolve", "final"}
    /\ lock = "stopper" => spc = "locked"
    /\ lock = "waiter" => wpc \in {"scan", "rescan"}

\* stop() holds the lock, then a waiter takes it, both while phase.run is in progress.
C13_Witness ==
    /\ InPhaseRun
    /\ InPhaseStop
    /\ lock = "waiter"

\* phase.run left by an exception that run() raises again.
IsReraised(raised) == raised.cls \notin {None, "TerminateRun", "FailedRun"}

\* C17: when a stop() recorded a stop status other than NONE during the phase whose
\* run raised an unexpected exception, an interrupt or an exit, the termination
\* carries that stop status with no failure and no error, Terminal is entered and
\* run() raises the phase's exception.
C17_StopOverridesException ==
    (/\ RunEnded
     /\ outcomes # <<>>
     /\ IsReraised(LastOutcome.raised)
     /\ stop_seen.phase.id = LastOutcome.phase
     /\ Truthy(stop_seen.phase.stop_status))
        => /\ termination = TerminationInfo(stop_seen.phase.stop_status, None, NoError)
           /\ run_result = CallResult("raised", LastOutcome.raised)
           /\ EndedIn(LastOutcome.phase)

\* stop() was called while A ran, then A raised ValueError.
C17_Witness ==
    /\ RunEnded
    /\ stop_seen.phase.id = "A"
    /\ stop_calls # <<>>
    /\ outcomes = <<[phase |-> "A", raised |-> Raised("ValueError", "boom", 0, "NONE", None)]>>
    /\ termination.status = "STOPPED"
    /\ run_result.kind = "raised"

\* C18: every transition notifies the waiters, after the phase run was appended: a
\* thread waiting in wait_for_transition is woken by each append to the lifecycle.
C18_NotifyAfterAppend ==
    [][(lifecycle' # lifecycle /\ wpc = "waiting") => wpc' = "woken"]_vars

\* The arguments the hook must have been given for the i-th lifecycle entry.
ExpectedHookCall(i) ==
    [previous_run |-> IF i > 1 THEN lifecycle[i - 1] ELSE PhaseRun(NoPhase),
     current_run |-> lifecycle[i],
     phase_count |-> i]

\* C19: an installed transition hook has been called once per lifecycle entry, in
\* order, the i-th call with the i-th entry as current_run, the entry before it as
\* previous_run (none for the first) and phase_count = i, whatever stop() did.
C19_HookSnapshot ==
    transition_hook # None
        => hook_calls = [i \in 1..Len(lifecycle) |-> ExpectedHookCall(i)]

\* Two phases ran to the end with a hook installed while stop() was called.
C19_Witness ==
    /\ transition_hook = "quiet"
    /\ RunEnded
    /\ Len(hook_calls) = 4
    /\ hook_calls[4].current_run.phase_id = "term"
    /\ stop_calls # <<>>

\* C20: without stop(), a phase raising KeyboardInterrupt has its stop() called and
\* ends the run INTERRUPTED; one raising SystemExit(c) ends it COMPLETED if c = 0,
\* FAILED otherwise; Terminal follows that phase at once and run() raises the
\* same exception.
C20_InterruptAndExit ==
    (/\ RunEnded
     /\ stops = 0
     /\ outcomes # <<>>
     /\ LastOutcome.raised.cls \in {"KeyboardInterrupt", "SystemExit"})
        => /\ termination =
                TerminationInfo(IF LastOutcome.raised.cls = "KeyboardInterrupt"
                                  THEN "INTERRUPTED"
                                  ELSE IF LastOutcome.raised.code = 0 THEN "COMPLETED"
                                  ELSE "FAILED",
                                None, NoError)
           /\ run_result = CallResult("raised", LastOutcome.raised)
           /\ EndedIn(LastOutcome.phase)
           /\ stop_calls = IF LastOutcome.raised.cls = "KeyboardInterrupt"
                             THEN <<[phase |-> LastOutcome.phase, by |-> "driver", n |-> 0]>>
                             ELSE <<>>

\* The first of two phases raised SystemExit(0).
C20_Witness ==
    /\ RunEnded
    /\ stops = 0
    /\ Len(phases) = 2
    /\ outcomes = <<[phase |-> "A", raised |-> SystemExit(0)]>>
    /\ termination.status = "COMPLETED"
    /\ run_result.kind = "raised"

\* The field map of the last line: the parsers' results merged and converted.
Converted == field_conversion(Merge(output, EmptyMap))

Given(field) == field \in DOMAIN Converted

CallsOf(kind) == {i \in 1..Len(calls) : calls[i].call = kind}

\* The task the last line's updates were made on.
UpdatedTargets == {calls[i].target : i \in 1..Len(calls) \ CallsOf("subtask")}

\* C14: a line in which any of COMPLETED, INCREMENT, TOTAL, UNIT is given, 0
\* included, updates the operation named OPERATION, else EVENT, with amount
\* COMPLETED or INCREMENT, total TOTAL, unit UNIT and increment flag = (INCREMENT
\* is given), on the line's target task, and records no event.
C14_OperationUpdate ==
    (lines > 0 /\ \E f \in {"completed", "increment", "total", "unit"} : Given(f))
        => /\ \E i \in CallsOf("operation") :
                /\ CallsOf("operation") = {i}
                /\ calls[i].name = Or(Get(Converted, "operation"), Get(Converted, "event"))
                /\ calls[i].op.amount = Or(Get(Converted, "completed"),
                                           Get(Converted, "increment"))
                /\ calls[i].op.total = Get(Converted, "total")
                /\ calls[i].op.unit = Get(Converted, "unit")
                /\ calls[i].op.increment = Given("increment")
                /\ calls[i].op \in
                     {Target(tracker, calls[i].target).operations[j] :
                        j \in 1..Len(Target(tracker, calls[i].target).operations)}
           /\ CallsOf("event") = {}

\* The tail subtask, 0 if there is none.
TailSubtask(tr) == Len(tr.subtasks)

\* C15: a line with TASK = n makes its updates on the subtask tracker.subtask(n)
\* returns, and that subtask is marked finished, with the line's RESULT, exactly
\* when it is the subtask that was the tail before the line or a RESULT is given.
C15_SubtaskCompletion ==
    [][(lines' # lines /\ Given("task")')
        => LET n == Get(Converted', "task")
               target == subtask(tracker, n.str).target
               same == TailSubtask(tracker) > 0 /\ target = TailSubtask(tracker)
           IN  /\ CallsOf("subtask")' = {1}
               /\ calls'[1].name = n
               /\ UpdatedTargets' \subseteq {target}
               /\ (CallsOf("finished")' # {}) <=> (same \/ Given("result")')
               /\ \A i \in CallsOf("finished")' :
                     /\ calls'[i].name = Get(Converted', "result")
                     /\ tracker'.subtasks[target].is_finished
                     /\ tracker'.subtasks[target].result = Get(Converted', "result")]_vars

\* No parser returned a non-empty map for the last line.
NoParserMatched == \A i \in 1..Len(output) : ~output[i].matched \/ DOMAIN output[i].kv = {}

\* No key any parser returned for the last line is the name of a field.
NoFieldParsed == \A i \in 1..Len(output) : DOMAIN output[i].kv \cap Fields = {}

\* C16: a line for which no parser returns a non-empty map, or whose merged map
\* converts to an empty field map, leaves the tracker as it was: no subtask,
\* operation, event or finished call is made.
C16_MalformedLineDropped ==
    [][(lines' # lines /\ (NoParserMatched' \/ NoFieldParsed'))
        => (tracker' = tracker /\ calls' = <<>>)]_vars

\* After two updates of a subtask, a line with an unknown key only was dropped.
C16_Witness ==
    /\ lines = 3
    /\ ~NoParserMatched
    /\ NoFieldParsed
    /\ calls = <<>>
    /\ Len(tracker.subtasks) = 1
    /\ Len(tracker.subtasks[1].operations) = 1

\* The TASK the parsers found in the last line (field_conversion, line 25,
\* leaves it as it is).
ParsedTask == Get(Merge(output, EmptyMap), "task")

\* C21: a line without TASK is applied to the tail subtask if there is one and it
\* is not finished, to the tracker itself otherwise; it creates no subtask and
\* leaves every other task as it was.
C21_NoTaskTargetsTail ==
    [][(lines' # lines /\ ParsedTask' = NoneVal)
        => LET tail == TailSubtask(tracker)
               target == IF tail > 0 /\ ~tracker.subtasks[tail].is_finished THEN tail ELSE 0
           IN  /\ CallsOf("subtask")' = {}
               /\ UpdatedTargets' \subseteq {target}
               /\ Len(tracker'.subtasks) = tail
               /\ \A i \in 0..tail :
                     i # target => Target(tracker', i) = Target(tracker, i)]_vars

C21_Witness ==
    /\ lines = 3
    /\ ~Given("task")
    /\ Len(tracker.subtasks) = 2
    /\ tracker.subtasks[2].is_finished
    /\ calls # <<>>
    /\ UpdatedTargets = {0}


\* The latest stop() call that passed the guard of line 326 recorded the truthy
\* stop status of a configured phase and has returned.
StopReturned ==
    /\ stop_seen.phase.type = "EXEC"
    /\ Truthy(stop_seen.phase.stop_status)
    /\ stop_seen.n < stops \/ (spc = "idle" /\ stop_result = Returned)

\* The configured phases that have not been entered.
NotEntered ==
    {ConfiguredIds[i] : i \in 1..Len(phases)} \ {LifecycleIds[i] : i \in 1..Len(lifecycle)}

\* C22: once a stop() call that recorded a stop status other than NONE during the
\* run has returned, no transition enters a configured phase that had not been
\* entered before.
C22_StopPreventsFurtherPhases ==
    [][(StopReturned /\ Len(lifecycle') > Len(lifecycle))
        => lifecycle'[Len(lifecycle')].phase_id \notin NotEntered]_vars


\* C23: the phase whose stop() a Phaser.stop() call invokes at line 336 is the
\* phase whose stop_status the call recorded at line 329 (stated for the calls
\* that recorded the status of a configured phase).
C23_StopTargetsRecordedPhase ==
    \A i \in 1..Len(stop_calls) :
        (/\ stop_calls[i].by = "stop"
         /\ stop_calls[i].n = stop_seen.n
         /\ stop_seen.phase.type = "EXEC")
            => stop_calls[i].phase = stop_seen.phase.id


\* A wait_for_transition call is in progress.
InWait == wpc \in {"scan", "rescan", "waiting", "woken"}

\* A configured phase has been entered.
PhaseEntered == \E i \in 1..Len(lifecycle) : PhaseIndex(lifecycle[i].phase_id) > 0

\* C24: under fair scheduling a wait_for_transition call without a timeout
\* returns once the run has reached the terminal phase, whether or not the
\* phase it waits for was ever entered (stated for the calls made before run()
\* is called on a run that goes on to enter a phase: they are in progress when
\* the run ends).
C24_WaitersReturn ==
    (InWait /\ w_early /\ PhaseEntered /\ EndsWithTerminal) ~> (wpc = "returned")

====
